---- MODULE Spec2Model ----
(***************************************************************************)
(* waybar_auto_hide (src/src/main.rs): the main thread (visibility         *)
(* reconciler), the cursor poller thread, the window event listener        *)
(* thread, and set_waybar_visible, the retrying toggle driver that signals *)
(* the waybar process with SIGUSR1 (a toggle, not a set).                  *)
(*                                                                         *)
(* The specifications share the actions:                                   *)
(*   Spec          the whole program, main being the only caller of        *)
(*                 set_waybar_visible;                                     *)
(*   SpecFair      the same with fewer watcher events and a fair main      *)
(*                 thread, for the liveness properties;                    *)
(*   SpecDriver    set_waybar_visible alone under two concurrent callers;  *)
(*   SpecDetector  the cursor poller alone over a fine grid of positions.  *)
(*                                                                         *)
(* The Mutex is never poisoned: no code that runs while the guard is held  *)
(* panics, so the Err arms of state.lock() are unreachable and left out.   *)
(***************************************************************************)
EXTENDS Integers, Sequences, FiniteSets, TLC

VARIABLES
    cursor_top,       \* main: let mut cursor_top
    windows_opened,   \* main: let mut windows_opened
    last_visibility,  \* main: let mut last_visibility
    mainpc,           \* main: position of the main thread
    queue,            \* the mpsc channel (tx, rx): events sent, not yet received
    is_visible,       \* WaybarState.is_visible, behind the Mutex
    lock,             \* the Mutex: NoHolder, or the caller holding the guard
    sv,               \* per caller: the frame of its set_waybar_visible call
    previous_state,   \* cursor thread: let mut previous_state
    mouse_pc,         \* cursor thread: position
    pointer,          \* geometry source: the pointer as of the last cursorpos query
    win_pc,           \* listener thread: position
    bar_visible,      \* the waybar process: whether the bar is really shown
    produced,         \* history: every event sent on the channel, in send order
    processed,        \* history: every event main has received, in order
    emitted,          \* history: number of events sent by the two watcher threads
    delivered,        \* history: number of SIGUSR1 the waybar process has received
    any_failed,       \* history: some killall invocation has failed
    gave_up,          \* history: the last finished call ended with no signal delivered
    calls,            \* history: per caller, the arguments of its calls, in order
    initial           \* history: bar_visible, is_visible and windows_opened at the start

vars == <<cursor_top, windows_opened, last_visibility, mainpc, queue, is_visible,
          lock, sv, previous_state, mouse_pc, pointer, win_pc, bar_visible,
          produced, processed, emitted, delivered, any_failed, gave_up, calls, initial>>

mainVars == <<cursor_top, windows_opened, last_visibility, mainpc>>
mouseVars == <<previous_state, mouse_pc, pointer>>
driverVars == <<is_visible, lock, sv, bar_visible, delivered, any_failed, gave_up>>

----------------------------------------------------------------------------
(* Program constants *)

PIXEL_THRESHOLD == 3
PIXEL_THRESHOLD_SECONDARY == 50
WAYBAR_SIGNAL_RETRY_COUNT == 3

(* Bounds of the model *)

\* events the two watcher threads may send in one run
MaxEmitted == 2
\* events the two watcher threads may send in one run of SpecFair
MaxFairEmitted == 1
\* calls each caller of SpecDriver may make
MaxCalls == 1
\* height of each monitor of the layout, in pixels
MonitorHeight == 54
\* y origin of the second monitor of the layout
MonitorOffset == 6
\* windows the activeworkspace query may report
MaxWindows == 2

----------------------------------------------------------------------------
(* Events and the channel *)

CursorTop(val) == [tag |-> "CursorTop", val |-> val]
WindowsOpened(val) == [tag |-> "WindowsOpened", val |-> val]

\* tx.send(event): the channel is unbounded, the receiver lives as long as main
tx_send(q, event) == Append(q, event)

\* rx: the next event of `for event in rx`
rx_next(q) == Head(q)

\* a slip: the receive drops whatever else is waiting
rx_rest_Drop(q) == <<>>

\* rx: the channel after the receive
rx_rest(q) == Tail(q)

----------------------------------------------------------------------------
(* check_windows: the activeworkspace query *)

\* what hyprctl activeworkspace -j answers: a window count, or nothing usable
\* (hyprctl cannot be run, or its output does not parse)
QueryFailed == [ok |-> FALSE, windows |-> 0]
WindowResponses == {[ok |-> TRUE, windows |-> n] : n \in 0 .. MaxWindows} \cup {QueryFailed}

\* lines 187-199
check_windows(resp) == IF resp.ok THEN resp.windows > 0 ELSE FALSE

----------------------------------------------------------------------------
(* The toggle driver: needs_toggle and set_waybar_visible *)

\* a slip: a toggle is always thought needed
needs_toggle_Always(visible, current_state) == TRUE

\* lines 219-221
needs_toggle(visible, current_state) == visible # current_state

MainCaller == 1
Callers == {1, 2}
NoHolder == 0

\* visible, attempt, signal_sent, current_state (as read at line 246) and the
\* command's result are the function's locals; tries and oks are history: the
\* killall invocations of this call, and those of them that succeeded
IdleFrame == [pc |-> "idle", visible |-> FALSE, attempt |-> 0, signal_sent |-> FALSE,
              current_state |-> FALSE, command_ok |-> FALSE, tries |-> 0, oks |-> 0]

\* the call itself: a fresh frame about to take the lock (line 240)
EnterFrame(visible) == [IdleFrame EXCEPT !.pc = "lock", !.visible = visible]

\* the frame once the function has returned
ReturnFrame(f) == [f EXCEPT !.pc = "ret"]

\* state.lock() at lines 240, 268, 319, 345 and 396: where the frame waits for the
\* Mutex, and where it stands once it holds the guard
LockPoints == {"lock", "relock", "retry_sleep", "extra_relock", "post_sleep"}

AfterLock(pc) ==
    CASE pc = "lock" -> "entry"
      [] pc = "relock" -> "check"
      [] pc = "retry_sleep" -> "loop_top"
      [] pc = "extra_relock" -> "extra_check"
      [] pc = "post_sleep" -> "final"

\* the frame's positions at which it holds the guard
HeldPoints == {"entry", "check", "loop_top", "extra_check", "final"}

\* state.lock(): blocks until no other caller holds the guard. At line 396 it is
\* reached only when signal_sent; at 319 after the retry sleep
SvAcquire(c) ==
    /\ sv[c].pc \in LockPoints
    /\ sv[c].pc = "post_sleep" => sv[c].signal_sent
    /\ lock = NoHolder
    /\ lock' = c
    /\ sv' = [sv EXCEPT ![c] = [@ EXCEPT !.pc = AfterLock(@)]]
    /\ UNCHANGED <<is_visible, bar_visible, delivered, any_failed, gave_up>>

\* the top of a loop iteration, guard held (lines 256-262): the re-check, then
\* drop(state_guard) before the command
LoopTop(f, current_state) ==
    IF ~needs_toggle(f.visible, current_state)
      THEN ReturnFrame(f)
      ELSE [f EXCEPT !.pc = "send", !.attempt = @ + 1]

\* lines 246-262: the first check, signal_sent = false, the first iteration's
\* re-check and drop(state_guard)
SvEntry(c) ==
    /\ sv[c].pc = "entry"
    /\ lock = c
    /\ sv' = [sv EXCEPT ![c] = LoopTop([@ EXCEPT !.signal_sent = FALSE,
                                                 !.current_state = is_visible],
                                       is_visible)]
    /\ gave_up' = IF needs_toggle(sv[c].visible, is_visible) THEN gave_up ELSE FALSE
    /\ lock' = NoHolder
    /\ UNCHANGED <<is_visible, bar_visible, delivered, any_failed>>

\* lines 256-262 of a later iteration, after the retry sleep
SvLoopTop(c) ==
    /\ sv[c].pc = "loop_top"
    /\ lock = c
    /\ sv' = [sv EXCEPT ![c] = LoopTop(@, is_visible)]
    /\ gave_up' = IF needs_toggle(sv[c].visible, is_visible) THEN gave_up ELSE FALSE
    /\ lock' = NoHolder
    /\ UNCHANGED <<is_visible, bar_visible, delivered, any_failed>>

\* killall -SIGUSR1 waybar: on success waybar toggles its bar; on failure (no
\* process matched, or killall could not run) nothing was signalled
killall(ok, bar) == IF ok THEN ~bar ELSE bar

\* lines 263-265 (at "send") and 339-342 (at "extra_sleep": the cooldown sleep, then
\* the command); the guard was dropped before
SvSend(c, ok) ==
    /\ sv[c].pc \in {"send", "extra_sleep"}
    /\ bar_visible' = killall(ok, bar_visible)
    /\ delivered' = IF ok THEN delivered + 1 ELSE delivered
    /\ any_failed' = (any_failed \/ ~ok)
    /\ sv' = [sv EXCEPT ![c] = [@ EXCEPT
                 !.pc = IF @ = "send" THEN "relock" ELSE "extra_relock",
                 !.command_ok = ok,
                 !.tries = @ + 1,
                 !.oks = IF ok THEN @ + 1 ELSE @]]
    /\ UNCHANGED <<lock, is_visible, gave_up>>

\* a slip: no extra attempt after the loop, straight to the settle sleep
AfterFailedAttempt_NoExtra(f) ==
    IF f.attempt < WAYBAR_SIGNAL_RETRY_COUNT
      THEN [f EXCEPT !.pc = "retry_sleep"]
      ELSE [f EXCEPT !.pc = "post_sleep"]

\* where the frame stands after a failed attempt of the loop (lines 316-339):
\* before the last attempt the retry sleep; after it the loop ends, signal_sent is
\* false and the toggle still needed, so the cooldown sleep. Either way the guard
\* is dropped first
AfterFailedAttempt(f) ==
    IF f.attempt < WAYBAR_SIGNAL_RETRY_COUNT
      THEN [f EXCEPT !.pc = "retry_sleep"]
      ELSE [f EXCEPT !.pc = "extra_sleep"]

\* a slip: the command's result ignored, a success handled like a failure
SvCheck_IgnoreResult(c) ==
    /\ sv[c].pc = "check"
    /\ lock = c
    /\ IF ~needs_toggle(sv[c].visible, is_visible)
         THEN /\ sv' = [sv EXCEPT ![c] = ReturnFrame(@)]
              /\ gave_up' = FALSE
         ELSE /\ sv' = [sv EXCEPT ![c] = AfterFailedAttempt(@)]
              /\ UNCHANGED gave_up
    /\ lock' = NoHolder
    /\ UNCHANGED <<is_visible, bar_visible, delivered, any_failed>>

\* a slip: the guard kept across the retry sleep and the cooldown sleep
SvCheck_KeepGuard(c) ==
    /\ sv[c].pc = "check"
    /\ lock = c
    /\ IF ~needs_toggle(sv[c].visible, is_visible)
         THEN /\ sv' = [sv EXCEPT ![c] = ReturnFrame(@)]
              /\ gave_up' = FALSE
              /\ lock' = NoHolder
              /\ UNCHANGED is_visible
         ELSE IF sv[c].command_ok
           THEN /\ is_visible' = sv[c].visible
                /\ sv' = [sv EXCEPT ![c] = [@ EXCEPT !.signal_sent = TRUE,
                                                    !.pc = "post_sleep"]]
                /\ lock' = NoHolder
                /\ UNCHANGED gave_up
           ELSE /\ sv' = [sv EXCEPT ![c] = AfterFailedAttempt(@)]
                /\ UNCHANGED <<is_visible, gave_up, lock>>
    /\ UNCHANGED <<bar_visible, delivered, any_failed>>

\* lines 282-338, guard held: the re-check after the command, the match on its
\* result; a success breaks out to line 389
SvCheck(c) ==
    /\ sv[c].pc = "check"
    /\ lock = c
    /\ IF ~needs_toggle(sv[c].visible, is_visible)
         THEN /\ sv' = [sv EXCEPT ![c] = ReturnFrame(@)]
              /\ gave_up' = FALSE
              /\ UNCHANGED is_visible
         ELSE IF sv[c].command_ok
           THEN /\ is_visible' = sv[c].visible
                /\ sv' = [sv EXCEPT ![c] = [@ EXCEPT !.signal_sent = TRUE,
                                                    !.pc = "post_sleep"]]
                /\ UNCHANGED gave_up
           ELSE /\ sv' = [sv EXCEPT ![c] = AfterFailedAttempt(@)]
                /\ UNCHANGED <<is_visible, gave_up>>
    /\ lock' = NoHolder
    /\ UNCHANGED <<bar_visible, delivered, any_failed>>

\* a slip: a successful extra attempt does not record the new state
SvExtraCheck_NoUpdate(c) ==
    /\ sv[c].pc = "extra_check"
    /\ lock = c
    /\ IF ~needs_toggle(sv[c].visible, is_visible)
         THEN /\ sv' = [sv EXCEPT ![c] = ReturnFrame(@)]
              /\ gave_up' = FALSE
         ELSE /\ sv' = [sv EXCEPT ![c] = [@ EXCEPT !.pc = "post_sleep"]]
              /\ UNCHANGED gave_up
    /\ lock' = NoHolder
    /\ UNCHANGED <<is_visible, bar_visible, delivered, any_failed>>

\* lines 359-389, guard held: the re-check after the extra attempt, the match on
\* its result, drop(state_guard)
SvExtraCheck(c) ==
    /\ sv[c].pc = "extra_check"
    /\ lock = c
    /\ IF ~needs_toggle(sv[c].visible, is_visible)
         THEN /\ sv' = [sv EXCEPT ![c] = ReturnFrame(@)]
              /\ gave_up' = FALSE
              /\ UNCHANGED is_visible
         ELSE IF sv[c].command_ok
           THEN /\ is_visible' = sv[c].visible
                /\ sv' = [sv EXCEPT ![c] = [@ EXCEPT !.signal_sent = TRUE,
                                                    !.pc = "post_sleep"]]
                /\ UNCHANGED gave_up
           ELSE /\ sv' = [sv EXCEPT ![c] = [@ EXCEPT !.pc = "post_sleep"]]
                /\ UNCHANGED <<is_visible, gave_up>>
    /\ lock' = NoHolder
    /\ UNCHANGED <<bar_visible, delivered, any_failed>>

\* lines 404-408, guard held: the final check of a call that sent its signal
SvFinal(c) ==
    /\ sv[c].pc = "final"
    /\ lock = c
    /\ is_visible' = IF needs_toggle(sv[c].visible, is_visible)
                       THEN sv[c].visible ELSE is_visible
    /\ sv' = [sv EXCEPT ![c] = ReturnFrame(@)]
    /\ gave_up' = FALSE
    /\ lock' = NoHolder
    /\ UNCHANGED <<bar_visible, delivered, any_failed>>

\* lines 390, 395, 409-415: after the settle sleep of a call whose every attempt
\* failed: the warning, no lock taken, state not updated
SvGiveUp(c) ==
    /\ sv[c].pc = "post_sleep"
    /\ ~sv[c].signal_sent
    /\ sv' = [sv EXCEPT ![c] = ReturnFrame(@)]
    /\ gave_up' = TRUE
    /\ UNCHANGED <<lock, is_visible, bar_visible, delivered, any_failed>>

\* one step of caller c inside set_waybar_visible
SvStep(c) ==
    \/ SvAcquire(c)
    \/ SvEntry(c)
    \/ SvLoopTop(c)
    \/ \E ok \in BOOLEAN : SvSend(c, ok)
    \/ SvCheck(c)
    \/ SvExtraCheck(c)
    \/ SvFinal(c)
    \/ SvGiveUp(c)

----------------------------------------------------------------------------
(* The geometry source, get_cursor_pos, and the cursor thread *)

\* the monitor layout of the compositor: two monitors side by side, the second
\* one placed MonitorOffset pixels lower
Monitors ==
    {[x |-> 0, y |-> 0, width |-> 1, height |-> MonitorHeight],
     [x |-> 1, y |-> MonitorOffset, width |-> 1, height |-> MonitorHeight]}

\* the monitors whose rectangle contains the point
Containing(p) ==
    {m \in Monitors : /\ m.x <= p.x /\ p.x < m.x + m.width
                      /\ m.y <= p.y /\ p.y < m.y + m.height}

\* every pointer position on or just below the layout
FinePositions == [status : {"at"}, x : 0 .. 1, y : 0 .. (MonitorOffset + MonitorHeight)]

\* the two positions that matter to the reconciler: at the top edge, and below the
\* exit threshold
CoarsePositions ==
    {[status |-> "at", x |-> 0, y |-> 0],
     [status |-> "at", x |-> 0, y |-> PIXEL_THRESHOLD_SECONDARY + 1]}

\* no cursorpos query made yet; a query that hyprctl did not answer
Unqueried == [status |-> "unqueried", x |-> 0, y |-> 0]
Unavailable == [status |-> "unavailable", x |-> 0, y |-> 0]

None == [some |-> FALSE, y |-> 0]

\* lines 130-141: hyprctl -j cursorpos deserialized into CursorPos, which keeps
\* only y; None when hyprctl cannot be run or its output does not parse
get_cursor_pos(p) == IF p.status = "at" THEN [some |-> TRUE, y |-> p.y] ELSE None

\* lines 109-113
treshold(previous) ==
    IF previous THEN PIXEL_THRESHOLD_SECONDARY ELSE PIXEL_THRESHOLD

\* line 114
is_cursor_top(pos, previous) == pos.y <= treshold(previous)

\* a slip: the state is sent at every sample, changed or not
MouseQuery_Level(p) ==
    /\ mouse_pc = "query"
    /\ pointer' = p
    /\ LET cursor_pos == get_cursor_pos(p) IN
       IF ~cursor_pos.some
         THEN UNCHANGED <<previous_state, mouse_pc, queue, produced, emitted>>
         ELSE LET top == is_cursor_top(cursor_pos, previous_state) IN
              /\ emitted < MaxEmitted
              /\ queue' = tx_send(queue, CursorTop(top))
              /\ produced' = Append(produced, CursorTop(top))
              /\ emitted' = emitted + 1
              /\ previous_state' = top
              /\ mouse_pc' = "sleep"
    /\ UNCHANGED <<mainVars, driverVars, win_pc, processed, calls, initial>>

\* lines 107-120: one iteration of the loop up to its sleep. With Some(pos) the
\* state is recomputed, an event sent when it changed, and the thread sleeps;
\* with None the loop starts over at once
MouseQuery(p) ==
    /\ mouse_pc = "query"
    /\ pointer' = p
    /\ LET cursor_pos == get_cursor_pos(p) IN
       IF ~cursor_pos.some
         THEN UNCHANGED <<previous_state, mouse_pc, queue, produced, emitted>>
         ELSE LET top == is_cursor_top(cursor_pos, previous_state) IN
              /\ IF top # previous_state
                   THEN /\ emitted < MaxEmitted
                        /\ queue' = tx_send(queue, CursorTop(top))
                        /\ produced' = Append(produced, CursorTop(top))
                        /\ emitted' = emitted + 1
                   ELSE UNCHANGED <<queue, produced, emitted>>
              /\ previous_state' = top
              /\ mouse_pc' = "sleep"
    /\ UNCHANGED <<mainVars, driverVars, win_pc, processed, calls, initial>>

\* line 119: thread::sleep(MOUSE_REFRESH_DELAY_MS) is over
MouseSleep ==
    /\ mouse_pc = "sleep"
    /\ mouse_pc' = "query"
    /\ UNCHANGED <<mainVars, driverVars, previous_state, pointer, win_pc, queue,
                   produced, processed, emitted, calls, initial>>

----------------------------------------------------------------------------
(* The window event listener thread *)

\* lines 145-159: the socket path (a missing environment variable panics the
\* thread) and UnixStream::connect; on failure the thread ends
WinConnect(ok) ==
    /\ win_pc = "connect"
    /\ win_pc' = IF ok THEN "read" ELSE "exited"
    /\ UNCHANGED <<mainVars, driverVars, mouseVars, queue, produced, processed,
                   emitted, calls, initial>>

\* lines 161-168: one line of the socket; a line naming openwindow, closewindow
\* or workspace sends the result of a fresh check_windows(), any other is ignored
WinLine(relevant, resp) ==
    /\ win_pc = "read"
    /\ IF relevant
         THEN /\ emitted < MaxEmitted
              /\ queue' = tx_send(queue, WindowsOpened(check_windows(resp)))
              /\ produced' = Append(produced, WindowsOpened(check_windows(resp)))
              /\ emitted' = emitted + 1
         ELSE UNCHANGED <<queue, produced, emitted>>
    /\ UNCHANGED <<mainVars, driverVars, mouseVars, win_pc, processed, calls, initial>>

\* line 161: the socket is closed, reader.lines() ends and so does the thread
WinEof ==
    /\ win_pc = "read"
    /\ win_pc' = "exited"
    /\ UNCHANGED <<mainVars, driverVars, mouseVars, queue, produced, processed,
                   emitted, calls, initial>>

----------------------------------------------------------------------------
(* The main thread *)

\* a slip: the cursor at the top does not force the bar visible
current_visible_IgnoreCursor(top, opened) == ~opened

\* line 94
current_visible(top, opened) == IF top THEN TRUE ELSE ~opened

\* line 75
MainSpawnMouse ==
    /\ mainpc = "spawn_mouse"
    /\ mainpc' = "spawn_window"
    /\ mouse_pc' = "query"
    /\ UNCHANGED <<cursor_top, windows_opened, last_visibility, driverVars,
                   previous_state, pointer, win_pc, queue, produced, processed,
                   emitted, calls, initial>>

\* line 76
MainSpawnWindow ==
    /\ mainpc = "spawn_window"
    /\ mainpc' = "send_cursor"
    /\ win_pc' = "connect"
    /\ UNCHANGED <<cursor_top, windows_opened, last_visibility, driverVars,
                   mouseVars, queue, produced, processed, emitted, calls, initial>>

\* line 78
MainSendCursor ==
    /\ mainpc = "send_cursor"
    /\ mainpc' = "send_windows"
    /\ queue' = tx_send(queue, CursorTop(FALSE))
    /\ produced' = Append(produced, CursorTop(FALSE))
    /\ UNCHANGED <<cursor_top, windows_opened, last_visibility, driverVars,
                   mouseVars, win_pc, processed, emitted, calls, initial>>

\* line 79
MainSendWindows ==
    /\ mainpc = "send_windows"
    /\ mainpc' = "startup"
    /\ queue' = tx_send(queue, WindowsOpened(windows_opened))
    /\ produced' = Append(produced, WindowsOpened(windows_opened))
    /\ UNCHANGED <<cursor_top, windows_opened, last_visibility, driverVars,
                   mouseVars, win_pc, processed, emitted, calls, initial>>

\* main calls set_waybar_visible(visible, &waybar_state)
MainCall(visible) ==
    /\ sv' = [sv EXCEPT ![MainCaller] = EnterFrame(visible)]
    /\ calls' = [calls EXCEPT ![MainCaller] = Append(@, visible)]

\* a slip: no startup toggle when windows are open
MainStartup_NoToggle ==
    /\ mainpc = "startup"
    /\ mainpc' = "recv"
    /\ UNCHANGED <<cursor_top, windows_opened, last_visibility, driverVars,
                   mouseVars, win_pc, queue, produced, processed, emitted, calls,
                   initial>>

\* lines 82-84
MainStartup ==
    /\ mainpc = "startup"
    /\ IF windows_opened
         THEN /\ MainCall(FALSE)
              /\ mainpc' = "startup_call"
         ELSE /\ mainpc' = "recv"
              /\ UNCHANGED <<sv, calls>>
    /\ UNCHANGED <<cursor_top, windows_opened, last_visibility, is_visible, lock,
                   bar_visible, delivered, any_failed, gave_up, mouseVars, win_pc, queue,
                   produced, processed, emitted, initial>>

\* line 84: the startup call has returned
MainStartupReturn ==
    /\ mainpc = "startup_call"
    /\ sv[MainCaller].pc = "ret"
    /\ sv' = [sv EXCEPT ![MainCaller] = IdleFrame]
    /\ mainpc' = "recv"
    /\ UNCHANGED <<cursor_top, windows_opened, last_visibility, is_visible, lock,
                   bar_visible, delivered, any_failed, gave_up, mouseVars, win_pc, queue,
                   produced, processed, emitted, calls, initial>>

\* lines 88-92: the match on the event
ApplyEvent(event, top, opened) ==
    IF event.tag = "CursorTop"
      THEN [cursor_top |-> event.val, windows_opened |-> opened]
      ELSE [cursor_top |-> top, windows_opened |-> event.val]

\* a slip: the comparison with last_visibility left out, every event calls
MainRecv_Always ==
    /\ mainpc = "recv"
    /\ queue # <<>>
    /\ LET event == rx_next(queue)
           flags == ApplyEvent(event, cursor_top, windows_opened)
           visible == current_visible(flags.cursor_top, flags.windows_opened)
       IN /\ queue' = rx_rest(queue)
          /\ processed' = Append(processed, event)
          /\ cursor_top' = flags.cursor_top
          /\ windows_opened' = flags.windows_opened
          /\ MainCall(visible)
          /\ mainpc' = "loop_call"
          /\ UNCHANGED last_visibility
    /\ UNCHANGED <<is_visible, lock, bar_visible, delivered, any_failed, gave_up,
                   mouseVars, win_pc, produced, emitted, initial>>

\* lines 86-99: receive one event, update the flag, recompute the visibility; when
\* it differs from last_visibility call set_waybar_visible, else finish the
\* iteration (line 99 assigns the value last_visibility already has)
MainRecv ==
    /\ mainpc = "recv"
    /\ queue # <<>>
    /\ LET event == rx_next(queue)
           flags == ApplyEvent(event, cursor_top, windows_opened)
           visible == current_visible(flags.cursor_top, flags.windows_opened)
       IN /\ queue' = rx_rest(queue)
          /\ processed' = Append(processed, event)
          /\ cursor_top' = flags.cursor_top
          /\ windows_opened' = flags.windows_opened
          /\ IF visible # last_visibility
               THEN /\ MainCall(visible)
                    /\ mainpc' = "loop_call"
                    /\ UNCHANGED last_visibility
               ELSE /\ last_visibility' = visible
                    /\ UNCHANGED <<mainpc, sv, calls>>
    /\ UNCHANGED <<is_visible, lock, bar_visible, delivered, any_failed, gave_up,
                   mouseVars, win_pc, produced, emitted, initial>>

\* a slip: line 99 left out after a call
MainLoopReturn_Stale ==
    /\ mainpc = "loop_call"
    /\ sv[MainCaller].pc = "ret"
    /\ sv' = [sv EXCEPT ![MainCaller] = IdleFrame]
    /\ mainpc' = "recv"
    /\ UNCHANGED <<cursor_top, windows_opened, last_visibility, is_visible, lock,
                   bar_visible, delivered, any_failed, gave_up, mouseVars, win_pc,
                   queue, produced, processed, emitted, calls, initial>>

\* lines 97-99: the call has returned; last_visibility = current_visible
MainLoopReturn ==
    /\ mainpc = "loop_call"
    /\ sv[MainCaller].pc = "ret"
    /\ sv' = [sv EXCEPT ![MainCaller] = IdleFrame]
    /\ last_visibility' = current_visible(cursor_top, windows_opened)
    /\ mainpc' = "recv"
    /\ UNCHANGED <<cursor_top, windows_opened, is_visible, lock, bar_visible, delivered,
                   any_failed, gave_up, mouseVars, win_pc, queue, produced,
                   processed, emitted, calls, initial>>

\* main inside set_waybar_visible
MainDriver ==
    /\ SvStep(MainCaller)
    /\ UNCHANGED <<mainVars, mouseVars, win_pc, queue, produced, processed,
                   emitted, calls, initial>>

\* any step of the main thread
MainStep ==
    \/ MainSpawnMouse
    \/ MainSpawnWindow
    \/ MainSendCursor
    \/ MainSendWindows
    \/ MainStartup
    \/ MainStartupReturn
    \/ MainRecv
    \/ MainLoopReturn
    \/ MainDriver

----------------------------------------------------------------------------
(* The whole program *)

\* the state once main has run lines 53-73: the flags, the first check_windows()
\* and the assumed-visible WaybarState; the bar itself may be shown or hidden
Init ==
    /\ cursor_top = FALSE
    /\ windows_opened \in {check_windows(resp) : resp \in WindowResponses}
    /\ last_visibility = ~windows_opened
    /\ mainpc = "spawn_mouse"
    /\ queue = <<>>
    /\ is_visible = TRUE
    /\ lock = NoHolder
    /\ sv = [c \in Callers |-> IdleFrame]
    /\ previous_state = FALSE
    /\ mouse_pc = "unspawned"
    /\ pointer = Unqueried
    /\ win_pc = "unspawned"
    /\ bar_visible \in BOOLEAN
    /\ produced = <<>>
    /\ processed = <<>>
    /\ emitted = 0
    /\ delivered = 0
    /\ any_failed = FALSE
    /\ gave_up = FALSE
    /\ calls = [c \in Callers |-> <<>>]
    /\ initial = [bar_visible |-> bar_visible, is_visible |-> is_visible,
                  windows_opened |-> windows_opened]

Next ==
    \/ MainStep
    \/ \E p \in CoarsePositions \cup {Unavailable} : MouseQuery(p)
    \/ MouseSleep
    \/ \E ok \in BOOLEAN : WinConnect(ok)
    \/ \E relevant \in BOOLEAN, resp \in WindowResponses : WinLine(relevant, resp)
    \/ WinEof

Spec == Init /\ [][Next]_vars

\* the program with fewer watcher events
NextFair == Next /\ emitted' <= MaxFairEmitted

\* the operating system schedules every thread that can run: main, whose steps
\* send no watcher event, always gets its turn
SpecFair == Init /\ [][NextFair]_vars /\ WF_vars(MainStep)

----------------------------------------------------------------------------
(* set_waybar_visible alone, under two concurrent callers *)

\* caller c calls set_waybar_visible(visible, &state)
DriverCall(c, visible) ==
    /\ sv[c].pc \in {"idle", "ret"}
    /\ Len(calls[c]) < MaxCalls
    /\ sv' = [sv EXCEPT ![c] = EnterFrame(visible)]
    /\ calls' = [calls EXCEPT ![c] = Append(@, visible)]
    /\ UNCHANGED <<mainVars, mouseVars, win_pc, queue, produced, processed, emitted,
                   is_visible, lock, bar_visible, delivered, any_failed, gave_up,
                   initial>>

\* caller c inside set_waybar_visible
DriverStep(c) ==
    /\ SvStep(c)
    /\ UNCHANGED <<mainVars, mouseVars, win_pc, queue, produced, processed,
                   emitted, calls, initial>>

\* any WaybarState, any bar: what the state holds and what the bar shows can
\* differ (lines 42-46)
InitDriver ==
    /\ cursor_top = FALSE
    /\ windows_opened = FALSE
    /\ last_visibility = TRUE
    /\ mainpc = "driver"
    /\ queue = <<>>
    /\ is_visible \in BOOLEAN
    /\ lock = NoHolder
    /\ sv = [c \in Callers |-> IdleFrame]
    /\ previous_state = FALSE
    /\ mouse_pc = "unspawned"
    /\ pointer = Unqueried
    /\ win_pc = "unspawned"
    /\ bar_visible \in BOOLEAN
    /\ produced = <<>>
    /\ processed = <<>>
    /\ emitted = 0
    /\ delivered = 0
    /\ any_failed = FALSE
    /\ gave_up = FALSE
    /\ calls = [c \in Callers |-> <<>>]
    /\ initial = [bar_visible |-> bar_visible, is_visible |-> is_visible,
                  windows_opened |-> windows_opened]

NextDriver ==
    \E c \in Callers :
        \/ \E visible \in BOOLEAN : DriverCall(c, visible)
        \/ DriverStep(c)

SpecDriver == InitDriver /\ [][NextDriver]_vars

----------------------------------------------------------------------------
(* The cursor thread alone, over every position of the layout *)

\* the thread as spawn_mouse_position_updated starts it (line 105)
InitDetector ==
    /\ cursor_top = FALSE
    /\ windows_opened = FALSE
    /\ last_visibility = TRUE
    /\ mainpc = "detector"
    /\ queue = <<>>
    /\ is_visible = TRUE
    /\ lock = NoHolder
    /\ sv = [c \in Callers |-> IdleFrame]
    /\ previous_state = FALSE
    /\ mouse_pc = "query"
    /\ pointer = Unqueried
    /\ win_pc = "unspawned"
    /\ bar_visible = TRUE
    /\ produced = <<>>
    /\ processed = <<>>
    /\ emitted = 0
    /\ delivered = 0
    /\ any_failed = FALSE
    /\ gave_up = FALSE
    /\ calls = [c \in Callers |-> <<>>]
    /\ initial = [bar_visible |-> bar_visible, is_visible |-> is_visible,
                  windows_opened |-> windows_opened]

NextDetector ==
    \/ \E p \in FinePositions \cup {Unavailable} : MouseQuery(p)
    \/ MouseSleep

SpecDetector == InitDetector /\ [][NextDetector]_vars

----------------------------------------------------------------------------
(* Properties *)

\* the reconciler is idle: main waits at the receive of line 86 on an empty
\* channel, no set_waybar_visible call running
Idle == mainpc = "recv" /\ queue = <<>> /\ sv[MainCaller].pc = "idle"

\* the value of the last event with this tag among the first n of seq, or def
RECURSIVE LatestOf(_, _, _, _)
LatestOf(seq, n, tag, def) ==
    IF n = 0 THEN def
    ELSE IF seq[n].tag = tag THEN seq[n].val
    ELSE LatestOf(seq, n - 1, tag, def)

\* the latest value main has received for each flag
LatestCursorTop == LatestOf(processed, Len(processed), "CursorTop", FALSE)
LatestWindowsOpened ==
    LatestOf(processed, Len(processed), "WindowsOpened", initial.windows_opened)

\* C1: with the bar visible at startup and every signal delivered, whenever the
\* reconciler is idle the bar is shown exactly when the cursor is at the top or
\* no window is open, on the reconciler's current flags.
C1_BarFollowsFlags ==
    (initial.bar_visible /\ ~any_failed /\ Idle)
        => (bar_visible = (cursor_top \/ ~windows_opened))

\* C1 witness: idle after three toggles, windows open, cursor away, bar hidden
C1_Witness ==
    /\ initial.bar_visible /\ ~any_failed /\ Idle
    /\ delivered = 3 /\ windows_opened /\ ~cursor_top /\ ~bar_visible

\* C2: whenever main is not in the middle of an event (the initial state
\* included), last_visibility is the decision computed from the latest value
\* received for each flag, whether or not the signals went through.
C2_LastVisibilityIsDecision ==
    (mainpc # "loop_call")
        => /\ cursor_top = LatestCursorTop
           /\ windows_opened = LatestWindowsOpened
           /\ last_visibility = (IF LatestCursorTop THEN TRUE ELSE ~LatestWindowsOpened)

\* C2 witness: an event processed after a call that gave up
C2_Witness ==
    /\ mainpc = "recv" /\ gave_up /\ Len(processed) >= 3
    /\ ~last_visibility /\ bar_visible

\* the events of the end-to-end scenario, in the order main receives them
ScenarioStartup == <<CursorTop(FALSE), WindowsOpened(TRUE)>>
ScenarioShow == ScenarioStartup \o <<CursorTop(TRUE)>>
ScenarioHide == ScenarioShow \o <<CursorTop(FALSE)>>

\* C3: bar visible at startup, windows open, every signal delivered: the startup
\* sends one hide toggle, the two synthetic events none, CursorTop(true) one show
\* toggle, CursorTop(false) one hide toggle: three signals, the bar ends hidden.
C3_EndToEnd ==
    (/\ initial.bar_visible /\ initial.windows_opened /\ ~any_failed
     /\ mainpc = "recv" /\ sv[MainCaller].pc = "idle")
        => /\ (processed = <<>> \/ processed = <<CursorTop(FALSE)>>
                 \/ processed = ScenarioStartup)
                => (delivered = 1 /\ ~bar_visible /\ calls[MainCaller] = <<FALSE>>)
           /\ processed = ScenarioShow
                => (delivered = 2 /\ bar_visible /\ calls[MainCaller] = <<FALSE, TRUE>>)
           /\ processed = ScenarioHide
                => (delivered = 3 /\ ~bar_visible
                    /\ calls[MainCaller] = <<FALSE, TRUE, FALSE>>)

\* C3 witness: the scenario has run to its end
C3_Witness ==
    /\ initial.bar_visible /\ initial.windows_opened /\ ~any_failed
    /\ mainpc = "recv" /\ sv[MainCaller].pc = "idle"
    /\ processed = ScenarioHide

\* every call made so far asked for the visibility the state held at the start
OnlyNoOpCalls ==
    \A c \in Callers : \A i \in 1 .. Len(calls[c]) : calls[c][i] = initial.is_visible

\* C4: set_waybar_visible(v) called while is_visible = v, by one caller or by two
\* at once, runs no killall and leaves is_visible as it was.
C4_NoOpSendsNothing ==
    OnlyNoOpCalls
        => /\ is_visible = initial.is_visible
           /\ delivered = 0 /\ ~any_failed
           /\ bar_visible = initial.bar_visible
           /\ \A c \in Callers : sv[c].tries = 0

\* C4 witness: both callers have called with the held value and have returned
C4_Witness ==
    /\ OnlyNoOpCalls
    /\ \A c \in Callers : sv[c].pc = "ret" /\ calls[c] = <<TRUE>>

\* C5: a call by the only caller that found is_visible different from the wanted
\* value and whose every killall failed has run killall exactly four times (three
\* in the loop, one after the cooldown) and returns with is_visible unchanged.
C5_RetryBound ==
    LET f == sv[MainCaller] IN
    /\ f.tries <= 4
    /\ (f.pc = "ret" /\ needs_toggle(f.visible, f.current_state) /\ f.oks = 0)
         => (f.tries = 4 /\ is_visible = f.current_state)

\* C5 witness: such a call has returned
C5_Witness ==
    LET f == sv[MainCaller] IN
    f.pc = "ret" /\ f.visible # f.current_state /\ f.oks = 0 /\ f.tries = 4

\* C6: after a call has given up (every killall failed), the next event main
\* processes whose recomputed visibility still differs from is_visible makes main
\* call set_waybar_visible again.
C6_RetryOnNextEvent ==
    [][(/\ gave_up /\ mainpc = "recv" /\ sv[MainCaller].pc = "idle"
        /\ processed' # processed
        /\ needs_toggle(current_visible(cursor_top', windows_opened'), is_visible'))
         => (sv'[MainCaller].pc = "lock"
             /\ sv'[MainCaller].visible = current_visible(cursor_top', windows_opened'))
      ]_vars

\* each caller has made one call, both for the same value, different from the
\* value the state held; the bar showed what the state held; no killall failed;
\* both calls have returned
BothToggledTo(d) ==
    /\ \A c \in Callers : calls[c] = <<d>> /\ sv[c].pc = "ret"
    /\ initial.is_visible # d
    /\ initial.bar_visible = initial.is_visible
    /\ ~any_failed

\* C7: two concurrent set_waybar_visible(d) that start with is_visible # d and
\* whose signals all go through send one signal in all, and once both have
\* returned is_visible = d and the bar shows d.
C7_OneToggleForTwoCallers ==
    \A d \in BOOLEAN :
        BothToggledTo(d) => (delivered = 1 /\ is_visible = d /\ bar_visible = d)

\* the y of a point relative to the monitor that contains it
LocalY(p) == p.y - (CHOOSE m \in Containing(p) : TRUE).y

\* C8: hysteresis on the monitor-local y: from previous_state = false the new state
\* is true iff local_y <= 3, from previous_state = true iff local_y <= 50.
C8_Hysteresis ==
    [][(mouse_pc = "query" /\ pointer'.status = "at" /\ Containing(pointer') # {})
         => (previous_state' = (IF previous_state THEN LocalY(pointer') <= 50
                                                  ELSE LocalY(pointer') <= 3))
      ]_vars

\* what does hold of the thresholds: the same on the desktop y that hyprctl reports
HysteresisOnDesktopY ==
    [][(mouse_pc = "query" /\ pointer'.status = "at")
         => (previous_state' = (IF previous_state THEN pointer'.y <= 50
                                                  ELSE pointer'.y <= 3))
      ]_vars

\* C9: the comparison is made on the y relative to the monitor that contains the
\* cursor, and a sample that no monitor contains sends no event (the tick is
\* skipped).
C9_MonitorLocalY ==
    [][(mouse_pc = "query" /\ pointer'.status = "at")
         => IF Containing(pointer') # {}
              THEN previous_state'
                     = is_cursor_top([some |-> TRUE, y |-> LocalY(pointer')], previous_state)
              ELSE queue' = queue /\ previous_state' = previous_state
      ]_vars

\* C10: every event sent is received by main exactly once and in send order;
\* under fair scheduling every event sent is eventually received, and every call
\* of set_waybar_visible returns, also when every killall fails.
C10_EveryEventConsumed ==
    /\ [](produced = processed \o queue)
    /\ \A k \in 1 .. (MaxFairEmitted + 2) :
           (Len(produced) >= k) ~> (Len(processed) >= k)
    /\ (sv[MainCaller].pc # "idle") ~> (sv[MainCaller].pc = "idle")

\* C10 witness: every event of a full run received, the last call having given up
C10_Witness ==
    /\ Len(processed) = MaxFairEmitted + 2 /\ queue = <<>>
    /\ produced = processed
    /\ gave_up /\ sv[MainCaller].pc = "idle"

\* C11: processing an event calls set_waybar_visible exactly when the visibility
\* recomputed from the updated flags differs from last_visibility, and with that
\* value; otherwise the iteration ends with no call started, no signal sent and
\* main back at the receive.
C11_CallExactlyOnChange ==
    [][Len(processed') > Len(processed) =>
          LET visible == cursor_top' \/ ~windows_opened' IN
          IF visible # last_visibility
            THEN /\ calls'[MainCaller] = Append(calls[MainCaller], visible)
                 /\ sv'[MainCaller].pc = "lock"
                 /\ sv'[MainCaller].visible = visible
            ELSE /\ calls' = calls
                 /\ sv' = sv
                 /\ sv[MainCaller].pc = "idle"
                 /\ mainpc' = "recv"
                 /\ delivered' = delivered /\ bar_visible' = bar_visible]_vars

\* C11 witness: the last event processed changed windows_opened while the
\* cursor was at the top, and no call was made for it
C11_Witness ==
    /\ mainpc = "recv" /\ sv[MainCaller].pc = "idle" /\ cursor_top
    /\ Len(processed) >= 2
    /\ processed[Len(processed)].tag = "WindowsOpened"
    /\ processed[Len(processed)].val
         # LatestOf(processed, Len(processed) - 1, "WindowsOpened", initial.windows_opened)
    /\ last_visibility

\* C12: in a set_waybar_visible call of main, with no other caller, at most one
\* killall succeeds; once one has succeeded the call runs no further killall
\* (no later loop attempt, no extra attempt); and a call that returns after a
\* successful killall leaves is_visible equal to the value it was called with.
C12_StopAfterSuccess ==
    [][/\ sv'[MainCaller].oks <= 1
       /\ (sv[MainCaller].oks = 1 => sv'[MainCaller].tries <= sv[MainCaller].tries)
       /\ (sv'[MainCaller].pc = "ret" /\ sv'[MainCaller].oks = 1)
             => is_visible' = sv'[MainCaller].visible]_vars

\* C12 witness: a call returned whose second killall succeeded after a failed
\* first, with the third loop attempt and the extra attempt left unused
C12_Witness ==
    /\ sv[MainCaller].pc = "ret"
    /\ sv[MainCaller].tries = 2 /\ sv[MainCaller].oks = 1
    /\ is_visible = sv[MainCaller].visible

\* C13: with main the only caller and the bar shown when the program starts,
\* whenever no set_waybar_visible call is running is_visible is what the bar
\* shows, whichever of the killall runs failed.
C13_BeliefMatchesBar ==
    (initial.bar_visible /\ sv[MainCaller].pc \in {"idle", "ret"})
        => (is_visible = bar_visible)

\* C13 witness: a call has returned whose three loop attempts failed and whose
\* extra attempt hid the bar
C13_Witness ==
    /\ initial.bar_visible /\ sv[MainCaller].pc = "ret"
    /\ sv[MainCaller].tries = 4 /\ sv[MainCaller].oks = 1
    /\ ~is_visible /\ ~bar_visible

\* the one call of caller c was set_waybar_visible(visible) and has returned
Returned(c, visible) == calls[c] = <<visible>> /\ sv[c].pc = "ret"

\* C14: starting from a WaybarState that matches the bar, with every killall
\* succeeding, once a set_waybar_visible(false) of one caller and a
\* set_waybar_visible(true) of the other have both returned, in whatever way
\* they interleaved, is_visible is what the bar shows.
C14_OppositeCallersAgree ==
    (/\ initial.is_visible = initial.bar_visible /\ ~any_failed
     /\ \E c \in Callers : \E d \in Callers \ {c} :
            Returned(c, FALSE) /\ Returned(d, TRUE))
        => (is_visible = bar_visible)

\* C15: however main and the two watcher threads interleave at startup, the
\* first event main processes is the CursorTop(false) it sent itself, and main
\* is back at the receive after it with no set_waybar_visible call started.
C15_FirstEventIsSynthetic ==
    (Len(processed) >= 1)
        => /\ processed[1] = CursorTop(FALSE)
           /\ Len(processed) = 1 => mainpc = "recv" /\ sv[MainCaller].pc = "idle"

\* C16: however the producers interleaved, once main has processed every event
\* sent, cursor_top is the cursor thread's previous_state and windows_opened is
\* the result carried by the latest WindowsOpened event sent.
C16_FinalStateMatchesProducers ==
    (queue = <<>> /\ mainpc \in {"recv", "loop_call"})
        => /\ cursor_top = previous_state
           /\ windows_opened
                = LatestOf(produced, Len(produced), "WindowsOpened", initial.windows_opened)

\* the positions of a call at which the command is run or the thread sleeps:
\* killall (lines 263, 340), the sleeps of lines 318, 339 and 390
SendOrSleepPoints == {"send", "retry_sleep", "extra_sleep", "post_sleep"}

C18_EdgeTriggered ==
    /\ [](\A i \in 1 .. Len(produced) : produced[i] = CursorTop(i % 2 = 1))
    /\ [][IF previous_state' # previous_state
            THEN produced' = Append(produced, CursorTop(previous_state'))
            ELSE produced' = produced]_vars

\* C18 witness: after CursorTop(true) a sample between the two thresholds, still
\* at the top, has sent nothing
C18_Witness ==
    /\ produced = <<CursorTop(TRUE)>> /\ previous_state
    /\ pointer.status = "at" /\ pointer.x = 0
    /\ pointer.y > PIXEL_THRESHOLD /\ pointer.y <= PIXEL_THRESHOLD_SECONDARY
    /\ mouse_pc = "sleep"

\* C19: every iteration of the cursor thread, whether its cursorpos query was
\* answered or not, ends in the sleep of the poll interval before the next
\* query; and an unanswered query sends no event and leaves previous_state as
\* it was.
C19_SleepEveryTick ==
    [][(mouse_pc = "query")
          => /\ mouse_pc' = "sleep"
             /\ (pointer'.status # "at")
                   => (produced' = produced /\ previous_state' = previous_state)]_vars

\* C20: when the activeworkspace query made for a window or workspace line
\* fails, the listener sends no event: the channel is left as it was, and with
\* it main's windows_opened and the bar.
C20_FailedQuerySkipped ==
    [][WinLine(TRUE, QueryFailed)
          => /\ queue' = queue /\ produced' = produced
             /\ windows_opened' = windows_opened /\ bar_visible' = bar_visible]_vars

====
